---- MODULE Spec2Model ----
(***************************************************************************)
(* Model of streamlit_app.py: the session coordinator in main() (preview   *)
(* poll loop, full-session single read, presentation dispatch) and the     *)
(* chart builders of VisualizationSession (line/bar combination,           *)
(* horizontal bar, pie/donut).                                              *)
(*                                                                         *)
(* Time is counted in whole seconds.  None (Python) is written "None" for  *)
(* strings; for largest_items the code only tests truthiness before use,   *)
(* so None and 0 are both written 0.                                       *)
(***************************************************************************)
EXTENDS Integers, Sequences, FiniteSets, TLC

VARIABLES
    session_id,            \* query parameter session_id, a sequence of characters (<<>>: absent)
    mode,                  \* query parameter mode ("full" when absent)
    pc,                    \* position of main()
    elapsed,               \* time.time() - start_time, as of now
    config_found,          \* local of main(), line 522
    session_data,          \* local of main(): the document read, or "None"
    ops,                   \* history: the store operations and sleeps made so far
    outcome,               \* what main() reported when it ended
    acquired_by,           \* how the config is obtained: "none" | "poll" | "single_read"
    presented,             \* "none" | "stored_config" | "interface"
    df,                    \* the DataFrame handed to the builders
    line_bar_series,       \* st.session_state.line_bar_series
    horizontal_bar_series, \* st.session_state.horizontal_bar_series
    charts                 \* the figures handed to st.plotly_chart, in order

vars == <<session_id, mode, pc, elapsed, config_found, session_data, ops,
          outcome, acquired_by, presented, df, line_bar_series, horizontal_bar_series, charts>>

-----------------------------------------------------------------------------
(* Bounds of the model *)

MaxCheckDur == 1     \* longest time one exists() call takes
MaxOversleep == 1    \* longest time time.sleep(1) sleeps beyond 1 second
MaxSeries == 2       \* longest series list of a stored configuration
MaxRows == 3         \* most rows of a dataset given to the pie build
MaxTopN == 2         \* largest value of largestItems

(* Program constants *)

PollWindow == 15     \* while time.time() - start_time < 15
SleepInterval == 1   \* time.sleep(1)

-----------------------------------------------------------------------------
(* Session identifiers and the preview naming convention *)

PreviewPrefix == <<"p", "r", "e", "v", "i", "e", "w", "_">>

SessionIds ==
    { <<>>,
      <<"p", "r", "e", "v", "i", "e", "w", "_", "1">>,
      <<"p", "r", "e", "v", "i", "e", "w", "_">>,
      <<"p", "r", "e", "v", "i", "e", "w">>,
      <<"x", "p", "r", "e", "v", "i", "e", "w", "_">>,
      <<"a", "b", "c">> }

Modes == {"full", "preview"}

\* str.startswith
StartsWith(s, prefix) ==
    /\ Len(s) >= Len(prefix)
    /\ SubSeq(s, 1, Len(prefix)) = prefix

\* line 518: session_id.startswith('preview_')
IsPreviewSession(id) == StartsWith(id, PreviewPrefix)

-----------------------------------------------------------------------------
(* Datasets *)

ColNames == {"a", "b"}
MissingCol == "zz"                  \* a column name no dataset has
ColRefs == ColNames \cup {MissingCol}

LabelVals == {1, 2, 3}              \* values of column "a"
NumberVals == {1, 2}                \* values of column "b"

ValsOf(c) == IF c = "a" THEN LabelVals ELSE NumberVals

\* line 551: df = pd.DataFrame()
EmptyDf == [cols |-> {}, rows |-> <<>>]

\* df[c], for a column the frame has
Column(frame, c) == [i \in 1..Len(frame.rows) |-> frame.rows[i][c]]

HasColumn(frame, c) == c \in frame.cols

\* every sequence over S of length at most n
SeqsUpTo(S, n) == UNION {[1..k -> S] : k \in 0..n}

-----------------------------------------------------------------------------
(* Configurations: the visualizationConfig of a stored document.  A key    *)
(* the document does not hold reads as config.get's default.               *)

LineBarType == "Line / Vertical Bars / Stacked Vertical Bars / Combination"
HorizontalBarType == "Horizontal Bars / Stacked Horizontal Bars"
PieDonutType == "Donut / Pie"

BarTypes == {"Stacked Bars", "Side-by-Side Bars", "None"}
ColourThemes == {"Blue-Grey", "Yellow-Green", "Red-Orange"}

\* lines 231-236: the keys of a line/bar series
SeriesSpecs ==
    [column : ColRefs, type : {"Line", "Bar"}, axis : {"Left", "Right"},
     color : {"#000000"}]

\* lines 274-277: the keys of a horizontal bar series
HorizontalSeriesSpecs == [column : ColRefs, color : {"#000000"}]

Config(type, xAxis, barType, series, labels, values, chartType, largestItems, colorTheme) ==
    [type |-> type, xAxis |-> xAxis, title |-> "t", barType |-> barType,
     series |-> series, labels |-> labels, values |-> values,
     chartType |-> chartType, largestItems |-> largestItems,
     colorTheme |-> colorTheme]

\* session_data.get("visualizationConfig", {}) of a document without one
EmptyConfig == Config("None", "None", "None", <<>>, "None", "None", "None", 0, "None")

LineBarConfigs(n) ==
    {Config(LineBarType, x, b, s, "None", "None", "None", 0, "None") :
        x \in ColRefs, b \in BarTypes, s \in SeqsUpTo(SeriesSpecs, n)}

HorizontalBarConfigs(n) ==
    {Config(HorizontalBarType, x, b, s, "None", "None", "None", 0, "None") :
        x \in ColRefs, b \in BarTypes, s \in SeqsUpTo(HorizontalSeriesSpecs, n)}

PieConfigs ==
    {Config(PieDonutType, "None", "None", <<>>, l, v, ct, n, th) :
        l \in ColRefs, v \in ColRefs, ct \in {"Donut", "Pie"},
        n \in 0..MaxTopN, th \in {"Blue-Grey", "Purple", "None"}}

-----------------------------------------------------------------------------
(* preview_line_bar_chart, lines 324-353 *)

\* the two branches of line 328 exchanged
LineBarTraceKindsSwapped(frame, x_axis, s) ==
    [kind |-> IF s.type = "Line" THEN "Bar" ELSE "Scatter",
     x |-> Column(frame, x_axis),
     y |-> Column(frame, s.column),
     name |-> s.column,
     color |-> s.color,
     secondary_y |-> (s.axis = "Right")]

\* secondary_y left at its default
LineBarTraceAlwaysPrimary(frame, x_axis, s) ==
    [kind |-> IF s.type = "Line" THEN "Scatter" ELSE "Bar",
     x |-> Column(frame, x_axis),
     y |-> Column(frame, s.column),
     name |-> s.column,
     color |-> s.color,
     secondary_y |-> FALSE]

\* lines 328-347: the trace one series adds
LineBarTrace(frame, x_axis, s) ==
    [kind |-> IF s.type = "Line" THEN "Scatter" ELSE "Bar",
     x |-> Column(frame, x_axis),
     y |-> Column(frame, s.column),
     name |-> s.column,
     color |-> s.color,
     secondary_y |-> (s.axis = "Right")]

\* lines 327-347: the loop; df[...] of an absent column raises KeyError
RECURSIVE LineBarTraces(_, _, _, _)
LineBarTraces(frame, x_axis, series, traces) ==
    IF series = <<>> THEN [status |-> "ok", traces |-> traces]
    ELSE IF ~HasColumn(frame, x_axis) \/ ~HasColumn(frame, Head(series).column)
         THEN [status |-> "KeyError", traces |-> traces]
         ELSE LineBarTraces(frame, x_axis, Tail(series),
                            Append(traces, LineBarTrace(frame, x_axis, Head(series))))

\* lines 349-350
Barmode(bar_type) == IF bar_type = "Stacked Bars" THEN "stack" ELSE "default"

\* lines 325, 349-352: the figure; make_subplots(specs=[[{"secondary_y": True}]])
LineBarFigure(traces, title, bar_type) ==
    [family |-> "line_bar", secondary_y |-> TRUE, traces |-> traces,
     barmode |-> Barmode(bar_type), title |-> title]

\* the figure plotted with the traces added before the failure
PlottedLineBarPartial(build, title, bar_type) ==
    <<LineBarFigure(build.traces, title, bar_type)>>

\* line 353 is reached only when no line before it raised
PlottedLineBar(build, title, bar_type) ==
    IF build.status = "ok"
    THEN <<LineBarFigure(build.traces, title, bar_type)>>
    ELSE <<>>

preview_line_bar_chart(frame, x_axis, title, bar_type, series) ==
    LET build == LineBarTraces(frame, x_axis, series, <<>>)
    IN  [status |-> build.status, charts |-> PlottedLineBar(build, title, bar_type)]

-----------------------------------------------------------------------------
(* preview_horizontal_bar_chart, lines 355-373 *)

HorizontalBarTrace(frame, x_axis, s) ==
    [kind |-> "Bar", orientation |-> "h",
     y |-> Column(frame, x_axis),
     x |-> Column(frame, s.column),
     name |-> s.column,
     color |-> s.color]

RECURSIVE HorizontalBarTraces(_, _, _, _)
HorizontalBarTraces(frame, x_axis, series, traces) ==
    IF series = <<>> THEN [status |-> "ok", traces |-> traces]
    ELSE IF ~HasColumn(frame, x_axis) \/ ~HasColumn(frame, Head(series).column)
         THEN [status |-> "KeyError", traces |-> traces]
         ELSE HorizontalBarTraces(frame, x_axis, Tail(series),
                  Append(traces, HorizontalBarTrace(frame, x_axis, Head(series))))

preview_horizontal_bar_chart(frame, x_axis, title, bar_type, series) ==
    LET build == HorizontalBarTraces(frame, x_axis, series, <<>>)
    IN  [status |-> build.status,
         charts |-> IF build.status = "ok"
                    THEN <<[family |-> "horizontal_bar", traces |-> build.traces,
                            barmode |-> Barmode(bar_type), title |-> title]>>
                    ELSE <<>>]

-----------------------------------------------------------------------------
(* preview_pie_donut_chart, lines 375-390 *)

\* the elements of a finite set of integers, ascending
RECURSIVE Ascending(_)
Ascending(S) ==
    IF S = {} THEN <<>>
    ELSE LET m == CHOOSE x \in S : \A y \in S : x <= y
         IN  <<m>> \o Ascending(S \ {m})

\* the values of column labels, in row order of first appearance
RECURSIVE FirstSeen(_, _, _)
FirstSeen(frame, labels, i) ==
    IF i = 0 THEN <<>>
    ELSE LET before == FirstSeen(frame, labels, i - 1)
             k == frame.rows[i][labels]
         IN  IF \E j \in 1..Len(before) : before[j] = k
             THEN before ELSE Append(before, k)

FirstSeenOrder(frame, labels) == FirstSeen(frame, labels, Len(frame.rows))

\* groupby(labels, sort=False)
GroupKeysUnsorted(frame, labels) == FirstSeenOrder(frame, labels)

\* line 376: groupby(labels) orders the groups by key (pandas' sort=True)
GroupKeys(frame, labels) ==
    Ascending({frame.rows[i][labels] : i \in 1..Len(frame.rows)})

\* line 376: [values].sum() of the rows of one group, in row order
RECURSIVE GroupSum(_, _, _, _, _)
GroupSum(frame, labels, values, k, i) ==
    IF i = 0 THEN 0
    ELSE GroupSum(frame, labels, values, k, i - 1)
         + (IF frame.rows[i][labels] = k THEN frame.rows[i][values] ELSE 0)

\* line 376: df.groupby(labels)[values].sum().reset_index()
GroupBySum(frame, labels, values) ==
    LET keys == GroupKeys(frame, labels)
    IN  [j \in 1..Len(keys) |->
            [label |-> keys[j],
             value |-> GroupSum(frame, labels, values, keys[j], Len(frame.rows))]]

\* the first position holding the smallest value (nsmallest)
FirstSmallest(grouped) ==
    CHOOSE i \in 1..Len(grouped) :
        /\ \A j \in 1..Len(grouped) : grouped[j].value >= grouped[i].value
        /\ \A j \in 1..(i - 1) : grouped[j].value > grouped[i].value

\* the first position holding the largest value
FirstLargest(grouped) ==
    CHOOSE i \in 1..Len(grouped) :
        /\ \A j \in 1..Len(grouped) : grouped[j].value <= grouped[i].value
        /\ \A j \in 1..(i - 1) : grouped[j].value < grouped[i].value

RemoveAt(s, i) == SubSeq(s, 1, i - 1) \o SubSeq(s, i + 1, Len(s))

\* line 379: DataFrame.nlargest(n, values): the n rows of largest value, in
\* descending order, equal values in their order in the frame (keep='first')
RECURSIVE nlargest(_, _)
nlargest(grouped, n) ==
    IF n = 0 \/ grouped = <<>> THEN <<>>
    ELSE LET i == FirstLargest(grouped)
         IN  <<grouped[i]>> \o nlargest(RemoveAt(grouped, i), n - 1)

\* lines 378-379
Truncate(grouped, largest_items) ==
    IF largest_items # 0 THEN nlargest(grouped, largest_items) ELSE grouped

\* line 385
Hole(chart_type) == IF chart_type = "Donut" THEN "0.4" ELSE "0"

\* groupby of an absent column raises KeyError, as does selecting absent
\* values; reset_index cannot insert the labels column beside itself
PieStatus(frame, labels, values) ==
    IF ~HasColumn(frame, labels) \/ ~HasColumn(frame, values) THEN "KeyError"
    ELSE IF labels = values THEN "ValueError"
    ELSE "ok"

preview_pie_donut_chart(frame, labels, values, title, chart_type, largest_items, colour_theme) ==
    LET status == PieStatus(frame, labels, values)
    IN  [status |-> status,
         charts |-> IF status = "ok"
                    THEN <<[family |-> "pie",
                            slices |-> Truncate(GroupBySum(frame, labels, values),
                                                largest_items),
                            hole |-> Hole(chart_type),
                            title |-> title]>>
                    ELSE <<>>]

-----------------------------------------------------------------------------
(* render_preview, lines 392-432.  The result: whether a line raised, the  *)
(* figures plotted, and the two series lists of the session state.         *)

render_preview(frame, config, lbs, hbs) ==
    IF config.type = LineBarType
    THEN LET r == preview_line_bar_chart(frame, config.xAxis, config.title,
                                         config.barType, config.series)
         IN  [status |-> r.status, charts |-> r.charts,
              line_bar_series |-> config.series, horizontal_bar_series |-> hbs]
    ELSE IF config.type = HorizontalBarType
    THEN LET r == preview_horizontal_bar_chart(frame, config.xAxis, config.title,
                                               config.barType, config.series)
         IN  [status |-> r.status, charts |-> r.charts,
              line_bar_series |-> lbs, horizontal_bar_series |-> config.series]
    ELSE IF config.type = PieDonutType
    THEN LET r == preview_pie_donut_chart(frame, config.labels, config.values,
                      config.title, config.chartType, config.largestItems,
                      config.colorTheme)
         IN  [status |-> r.status, charts |-> r.charts,
              line_bar_series |-> lbs, horizontal_bar_series |-> hbs]
    ELSE [status |-> "ok", charts |-> <<>>,
          line_bar_series |-> lbs, horizontal_bar_series |-> hbs]

\* lines 169-178: selected_columns is only ever set to {} (line 137), so the
\* file selectbox has no option, returns None, and the interface stops there
render_visualization_interface(frame) == [status |-> "ok", charts |-> <<>>]

-----------------------------------------------------------------------------
(* The config store: what streamlit_sessions/<session_id>/config.json may  *)
(* hold when it is read.                                                   *)

StoredConfigs ==
    { EmptyConfig,
      Config(LineBarType, "a", "None", <<>>, "None", "None", "None", 0, "None"),
      Config(LineBarType, "a", "Stacked Bars",
             <<[column |-> "b", type |-> "Bar", axis |-> "Left", color |-> "#000000"]>>,
             "None", "None", "None", 0, "None"),
      Config(HorizontalBarType, "a", "None",
             <<[column |-> "b", color |-> "#000000"]>>,
             "None", "None", "None", 0, "None"),
      Config(PieDonutType, "None", "None", <<>>, "a", "b", "Donut", 0, "Blue-Grey") }

StoredDocs == [email : {"user@example.com"}, visualizationConfig : StoredConfigs]

\* the datasets the line/bar and horizontal bar builds are applied to
ComboDatasets ==
    {[cols |-> C, rows |-> <<[c \in C |-> IF c = "a" THEN 1 ELSE 2]>>] :
        C \in SUBSET ColNames}

\* the datasets the pie build is applied to
PieDatasets ==
    {EmptyDf} \cup
    {[cols |-> ColNames, rows |-> r] :
        r \in SeqsUpTo([a : LabelVals, b : NumberVals], MaxRows)}

-----------------------------------------------------------------------------
(* main(), lines 462-571 *)

\* the loop condition with the window one sleep short
WindowOpenOneShort(e) == e + SleepInterval < PollWindow

\* line 525: the loop condition
WindowOpen(e) == e < PollWindow

\* config_found never set
FoundAfterNeverSet(r) == FALSE

\* lines 526-527: config_found after an exists() that answered r
FoundAfter(r) == r = "true"

\* the read without its break
AfterPollReadNoBreak == "poll_sleep"

\* lines 528-530: after the read, break
AfterPollRead == "after_loop"

\* the full session retrying through the poll's sleep
AfterFullMissingSleeps == "poll_sleep"

\* the missing config without its return
AfterFullMissingNoReturn == "full_read"

\* lines 540-543: a full session whose config does not exist returns
AfterFullMissing == "done"

\* line 556: the presentation follows the mode parameter
Presentation(id, m) == IF m = "preview" THEN "stored_config" ELSE "interface"

ExistsOp(r) == IF r = "true" THEN "exists_true"
               ELSE IF r = "false" THEN "exists_false" ELSE "exists_raise"

Init ==
    /\ session_id \in SessionIds
    /\ mode \in Modes
    /\ pc = "start"
    /\ elapsed = 0
    /\ config_found = FALSE
    /\ session_data = <<>>
    /\ ops = <<>>
    /\ outcome = "none"
    /\ acquired_by = "none"
    /\ presented = "none"
    /\ df = EmptyDf
    /\ line_bar_series = <<>>
    /\ horizontal_bar_series = <<>>
    /\ charts = <<>>

\* lines 465-522: parameters, Firebase, the bucket listing, the branch on the
\* session identifier
Start ==
    /\ pc = "start"
    /\ \E env \in {"ok", "init_failed", "firebase_error"} :
         IF session_id = <<>>
         THEN /\ outcome' = "NoSessionId"
              /\ pc' = "done"
              /\ acquired_by' = acquired_by
         ELSE IF env = "init_failed"
         THEN /\ outcome' = "FirebaseInitFailed"
              /\ pc' = "done"
              /\ acquired_by' = acquired_by
         ELSE IF env = "firebase_error"
         THEN /\ outcome' = "FirebaseError"
              /\ pc' = "done"
              /\ acquired_by' = acquired_by
         ELSE /\ outcome' = outcome
              /\ pc' = IF IsPreviewSession(session_id) THEN "poll_test" ELSE "full_exists"
              /\ acquired_by' = IF IsPreviewSession(session_id) THEN "poll" ELSE "single_read"
    /\ UNCHANGED <<session_id, mode, elapsed, config_found, session_data, ops,
                   presented, df, line_bar_series, horizontal_bar_series, charts>>

\* line 525
PollTest ==
    /\ pc = "poll_test"
    /\ pc' = IF WindowOpen(elapsed) THEN "poll_exists" ELSE "after_loop"
    /\ UNCHANGED <<session_id, mode, acquired_by, elapsed, config_found, session_data, ops,
                   outcome, presented, df, line_bar_series, horizontal_bar_series,
                   charts>>

\* lines 526-527: config_blob.exists(), which takes d and answers r or raises
PollExists ==
    /\ pc = "poll_exists"
    /\ \E r \in {"true", "false", "raise"}, d \in 0..MaxCheckDur :
         /\ elapsed' = elapsed + d
         /\ ops' = Append(ops, ExistsOp(r))
         /\ config_found' = (config_found \/ FoundAfter(r))
         /\ pc' = IF r = "true" THEN "poll_read"
                  ELSE IF r = "false" THEN "poll_sleep" ELSE "done"
         /\ outcome' = IF r = "raise" THEN "FirebaseError" ELSE outcome
    /\ UNCHANGED <<session_id, mode, acquired_by, session_data, presented, df,
                   line_bar_series, horizontal_bar_series, charts>>

\* lines 528-530: json.loads(config_blob.download_as_string()), then break
PollRead ==
    /\ pc = "poll_read"
    /\ ops' = Append(ops, "read")
    /\ \/ \E doc \in StoredDocs :
            /\ session_data' = <<doc>>
            /\ pc' = AfterPollRead
            /\ outcome' = outcome
       \/ \E e \in {"NotFound", "JSONDecodeError"} :
            /\ session_data' = session_data
            /\ pc' = "done"
            /\ outcome' = e
    /\ UNCHANGED <<session_id, mode, acquired_by, elapsed, config_found, presented, df,
                   line_bar_series, horizontal_bar_series, charts>>

\* line 531: time.sleep(1) sleeps 1 second, or longer by o
PollSleep ==
    /\ pc = "poll_sleep"
    /\ \E o \in 0..MaxOversleep :
         elapsed' = elapsed + SleepInterval + o
    /\ ops' = Append(ops, "sleep")
    /\ pc' = "poll_test"
    /\ UNCHANGED <<session_id, mode, acquired_by, config_found, session_data, outcome,
                   presented, df, line_bar_series, horizontal_bar_series, charts>>

\* lines 533-536
AfterLoop ==
    /\ pc = "after_loop"
    /\ IF ~config_found
       THEN /\ outcome' = "ConfigurationTimeout"
            /\ pc' = "done"
       ELSE /\ outcome' = outcome
            /\ pc' = "render"
    /\ UNCHANGED <<session_id, mode, acquired_by, elapsed, config_found, session_data, ops,
                   presented, df, line_bar_series, horizontal_bar_series, charts>>

\* lines 539-543
FullExists ==
    /\ pc = "full_exists"
    /\ \E r \in {"true", "false", "raise"} :
         /\ ops' = Append(ops, ExistsOp(r))
         /\ pc' = IF r = "true" THEN "full_read"
                  ELSE IF r = "false" THEN AfterFullMissing ELSE "done"
         /\ outcome' = IF r = "false" THEN "ConfigurationMissing"
                       ELSE IF r = "raise" THEN "FirebaseError" ELSE outcome
    /\ UNCHANGED <<session_id, mode, acquired_by, elapsed, config_found, session_data,
                   presented, df, line_bar_series, horizontal_bar_series, charts>>

\* lines 544-545
FullRead ==
    /\ pc = "full_read"
    /\ ops' = Append(ops, "read")
    /\ \/ \E doc \in StoredDocs :
            /\ session_data' = <<doc>>
            /\ pc' = "render"
            /\ outcome' = outcome
       \/ \E e \in {"NotFound", "JSONDecodeError"} :
            /\ session_data' = session_data
            /\ pc' = "done"
            /\ outcome' = e
    /\ UNCHANGED <<session_id, mode, acquired_by, elapsed, config_found, presented, df,
                   line_bar_series, horizontal_bar_series, charts>>

\* lines 547-561, and 569-571 when the render raises: the outcome is then the
\* exception the message of line 570 names
Render ==
    /\ pc = "render"
    /\ LET config == session_data[1].visualizationConfig
           shown == Presentation(session_id, mode)
           r == IF shown = "stored_config"
                THEN render_preview(df, config, line_bar_series, horizontal_bar_series)
                ELSE [status |-> "ok", charts |-> render_visualization_interface(df).charts,
                      line_bar_series |-> line_bar_series,
                      horizontal_bar_series |-> horizontal_bar_series]
       IN  /\ presented' = shown
           /\ charts' = charts \o r.charts
           /\ line_bar_series' = r.line_bar_series
           /\ horizontal_bar_series' = r.horizontal_bar_series
           /\ outcome' = IF r.status = "ok" THEN "Rendered" ELSE r.status
    /\ pc' = "done"
    /\ UNCHANGED <<session_id, mode, acquired_by, elapsed, config_found, session_data, ops, df>>

Next ==
    \/ Start
    \/ PollTest
    \/ PollExists
    \/ PollRead
    \/ PollSleep
    \/ AfterLoop
    \/ FullExists
    \/ FullRead
    \/ Render

Spec == Init /\ [][Next]_vars

\* main() runs on one thread that nothing suspends: a step that can be taken
\* is taken
SpecLive == Spec /\ WF_vars(Next)

-----------------------------------------------------------------------------
(* The builders on their own: render_preview applied to every stored       *)
(* configuration and dataset within the bounds, in a preview session that  *)
(* has just loaded its configuration.                                      *)

BuildInputs ==
    ((LineBarConfigs(MaxSeries) \cup HorizontalBarConfigs(MaxSeries)) \X ComboDatasets)
    \cup (PieConfigs \X PieDatasets)

BuildInit ==
    /\ session_id = <<"p", "r", "e", "v", "i", "e", "w", "_", "1">>
    /\ mode = "preview"
    /\ pc = "render"
    /\ elapsed = 0
    /\ config_found = TRUE
    /\ ops = <<"exists_true", "read">>
    /\ outcome = "none"
    /\ acquired_by = "poll"
    /\ presented = "none"
    /\ line_bar_series = <<>>
    /\ horizontal_bar_series = <<>>
    /\ charts = <<>>
    /\ \E input \in BuildInputs :
         /\ session_data = <<[email |-> "user@example.com",
                              visualizationConfig |-> input[1]]>>
         /\ df = input[2]

NextBuild == Render

SpecBuild == BuildInit /\ [][NextBuild]_vars

-----------------------------------------------------------------------------
(* Reading the history *)

IsExists(o) == o \in {"exists_true", "exists_false", "exists_raise"}
IsSleep(o) == o = "sleep"
IsRead(o) == o = "read"

ExistsResults == SelectSeq(ops, IsExists)
NSleeps == Len(SelectSeq(ops, IsSleep))
NReads == Len(SelectSeq(ops, IsRead))

\* every exists() so far took no time and every sleep lasted exactly
\* SleepInterval: the checks are spaced by the sleep alone
SpacedBySleepAlone == elapsed = NSleeps * SleepInterval

AllExistsFalse == \A i \in 1..Len(ops) : IsExists(ops[i]) => ops[i] = "exists_false"

-----------------------------------------------------------------------------
(* C1: in a preview session ConfigurationTimeout is reported only if every *)
(* exists check of the poll answered false, and never before 15 time units *)
(* have elapsed since polling started, whatever the store answers and      *)
(* however long the checks and sleeps take.                                *)
C1_TimeoutOnlyAfterWindow ==
    outcome = "ConfigurationTimeout" =>
        /\ IsPreviewSession(session_id)
        /\ elapsed >= PollWindow
        /\ AllExistsFalse
        /\ NReads = 0

\* a timeout after slow checks: fewer than 15 of them, more than 15 units
C1_Witness ==
    /\ outcome = "ConfigurationTimeout"
    /\ elapsed > PollWindow
    /\ Len(ExistsResults) < 15
    /\ Len(ExistsResults) > 1

(* C2: in a preview session whose store answers false to the first 14      *)
(* checks and true to the 15th, the checks spaced by the 1-unit sleep      *)
(* alone, the 15th check is made inside the window (no timeout is reported *)
(* after fewer than 15 checks) and the session reaches ConfigLoaded:       *)
(* config_found is set and the configuration is read.                      *)
C2_FifteenthCheckInsideWindow ==
    (IsPreviewSession(session_id) /\ SpacedBySleepAlone) =>
        /\ outcome = "ConfigurationTimeout" => Len(ExistsResults) >= 15
        /\ (Len(ExistsResults) = 15 /\ ExistsResults[15] = "exists_true") =>
              /\ config_found
              /\ outcome # "ConfigurationTimeout"
              /\ pc # "poll_sleep"
              /\ (pc \in {"after_loop", "render"}) => session_data # <<>>

\* 14 checks answered false, the 15th true, and the configuration loaded
C2_Witness ==
    /\ IsPreviewSession(session_id)
    /\ SpacedBySleepAlone
    /\ Len(ExistsResults) = 15
    /\ \A i \in 1..14 : ExistsResults[i] = "exists_false"
    /\ ExistsResults[15] = "exists_true"
    /\ config_found
    /\ session_data # <<>>
    /\ pc = "render"

(* C3: in a full session whose first exists check answers false the        *)
(* session ends at once with ConfigurationMissing: one exists check, no    *)
(* sleep, no further poll, no read, and no chart or interface rendered.    *)
C3_FullMissingEndsAtOnce ==
    (/\ ~IsPreviewSession(session_id)
     /\ ExistsResults # <<>>
     /\ ExistsResults[1] = "exists_false") =>
        /\ pc = "done"
        /\ outcome = "ConfigurationMissing"
        /\ ops = <<"exists_false">>
        /\ session_data = <<>>
        /\ charts = <<>>
        /\ presented = "none"

C3_Witness ==
    /\ ~IsPreviewSession(session_id)
    /\ ops = <<"exists_false">>
    /\ outcome = "ConfigurationMissing"
    /\ pc = "done"

(* C4: in any session run the configuration is read at most once, the read *)
(* comes immediately after an exists check that answered true, and nothing *)
(* (no exists check, no sleep) follows the read.                           *)
C4_ReadOnceAfterExistsTrue ==
    /\ NReads <= 1
    /\ \A i \in 1..Len(ops) :
          ops[i] = "read" =>
              /\ i > 1
              /\ ops[i - 1] = "exists_true"
              /\ i = Len(ops)

\* a preview session that polled, slept, found the config, read it and ended
C4_Witness ==
    /\ pc = "done"
    /\ NReads = 1
    /\ NSleeps >= 2
    /\ outcome = "Rendered"

(* C5: preview or full is decided by the session identifier alone, and     *)
(* that is the only branch point: both how the config is obtained (poll or *)
(* single read) and how the result is presented (the stored config or the  *)
(* interactive interface) follow the identifier, whatever the mode         *)
(* parameter.                                                              *)
C5_IdentifierAloneDecides ==
    /\ acquired_by # "none" =>
          (acquired_by = "poll" <=> IsPreviewSession(session_id))
    /\ presented # "none" =>
          (presented = "stored_config" <=> IsPreviewSession(session_id))

-----------------------------------------------------------------------------
(* The builds, read off the state after render_preview has run *)

Cfg == session_data[1].visualizationConfig

LineBarBuilt == pc = "done" /\ presented = "stored_config" /\ Cfg.type = LineBarType
PieBuilt == pc = "done" /\ presented = "stored_config" /\ Cfg.type = PieDonutType

SeriesColumnsExist ==
    \A i \in 1..Len(Cfg.series) : HasColumn(df, Cfg.series[i].column)

SomeSeriesRight == \E i \in 1..Len(Cfg.series) : Cfg.series[i].axis = "Right"

\* trace t is the trace of series s
TraceMatches(t, s) ==
    /\ \/ s.type = "Line" /\ t.kind = "Scatter"
       \/ s.type = "Bar" /\ t.kind = "Bar"
    /\ t.name = s.column
    /\ t.y = Column(df, s.column)
    /\ t.x = Column(df, Cfg.xAxis)
    /\ t.secondary_y = (s.axis = "Right")

(* C6: a LineBarCombo build over a series list whose columns all exist in  *)
(* the dataset plots a figure with exactly one trace per series, in the    *)
(* order of the series list, the i-th trace having the kind, column and    *)
(* axis side of the i-th series.  (The x-axis column is read once per      *)
(* series, line 331: the figure exists when it is present as well, or when *)
(* there is no series.)                                                    *)
C6_OneTracePerSeriesInOrder ==
    (LineBarBuilt /\ SeriesColumnsExist) =>
        /\ (HasColumn(df, Cfg.xAxis) \/ Cfg.series = <<>>) => Len(charts) = 1
        /\ \A k \in 1..Len(charts) :
              /\ Len(charts[k].traces) = Len(Cfg.series)
              /\ \A i \in 1..Len(Cfg.series) :
                    TraceMatches(charts[k].traces[i], Cfg.series[i])

\* a figure of two series of different kinds, columns and axis sides
C6_Witness ==
    /\ LineBarBuilt
    /\ Len(charts) = 1
    /\ Len(Cfg.series) = 2
    /\ Cfg.series[1].type # Cfg.series[2].type
    /\ Cfg.series[1].column # Cfg.series[2].column
    /\ Cfg.series[1].axis # Cfg.series[2].axis

(* C7 as stated: the secondary (right) axis is enabled in the plotted      *)
(* figure if and only if at least one series has axis side Right.          *)
C7_SecondaryAxisIffSomeRight ==
    (LineBarBuilt /\ charts # <<>>) =>
        (charts[1].secondary_y <=> SomeSeriesRight)

(* C7 as amended: the figure is always made with the secondary y axis      *)
(* enabled; a trace is drawn against it if and only if its series has axis *)
(* side Right, so the secondary axis carries a trace if and only if at     *)
(* least one series has axis side Right.                                   *)
C7_SecondaryAxisCarriesTraceIffSomeRight ==
    (LineBarBuilt /\ charts # <<>>) =>
        /\ charts[1].secondary_y
        /\ \A i \in 1..Len(charts[1].traces) :
              charts[1].traces[i].secondary_y <=> Cfg.series[i].axis = "Right"
        /\ (\E i \in 1..Len(charts[1].traces) : charts[1].traces[i].secondary_y)
              <=> SomeSeriesRight

\* a plotted figure whose series are all Left, and there is one at least
C7_Witness ==
    /\ LineBarBuilt
    /\ charts # <<>>
    /\ Cfg.series # <<>>
    /\ ~SomeSeriesRight
    /\ charts[1].secondary_y

\* the sum of the values column over the rows whose index is in I
RECURSIVE SumOverRows(_)
SumOverRows(I) ==
    IF I = {} THEN 0
    ELSE LET i == CHOOSE j \in I : TRUE
         IN  df.rows[i][Cfg.values] + SumOverRows(I \ {i})

DatasetLabels == {df.rows[i][Cfg.labels] : i \in 1..Len(df.rows)}
RowsLabelled(l) == {i \in 1..Len(df.rows) : df.rows[i][Cfg.labels] = l}
ExpectedSum(l) == SumOverRows(RowsLabelled(l))
SliceLabels == {charts[1].slices[i].label : i \in 1..Len(charts[1].slices)}
Smaller(a, b) == IF a < b THEN a ELSE b

(* C8: the pie build groups the rows by the labels column and gives each   *)
(* group the sum of its values; with topN present the output holds exactly *)
(* the min(topN, number of groups) groups of largest sum, and no group is  *)
(* added for the discarded remainder.                                      *)
C8_GroupSumsAndTopN ==
    (PieBuilt /\ charts # <<>>) =>
        LET slices == charts[1].slices
            n == Cfg.largestItems
        IN  /\ Cardinality(SliceLabels) = Len(slices)
            /\ SliceLabels \subseteq DatasetLabels
            /\ \A i \in 1..Len(slices) : slices[i].value = ExpectedSum(slices[i].label)
            /\ n = 0 => SliceLabels = DatasetLabels
            /\ n > 0 =>
                  /\ Len(slices) = Smaller(n, Cardinality(DatasetLabels))
                  /\ \A i \in 1..Len(slices) :
                        \A l \in DatasetLabels \ SliceLabels :
                            ExpectedSum(l) <= slices[i].value

\* three rows in two groups of different sums, topN = 1: one slice, the
\* larger group, which is the one of two rows
C8_Witness ==
    /\ PieBuilt
    /\ Len(charts) = 1
    /\ Len(df.rows) = 3
    /\ Cardinality(DatasetLabels) = 2
    /\ Cfg.largestItems = 1
    /\ Len(charts[1].slices) = 1
    /\ Cardinality(RowsLabelled(charts[1].slices[1].label)) = 2
    /\ \E l \in DatasetLabels : ExpectedSum(l) < charts[1].slices[1].value

\* the position of label l in the order of first appearance
FirstSeenAt(l) ==
    CHOOSE j \in 1..Len(FirstSeenOrder(df, Cfg.labels)) :
        FirstSeenOrder(df, Cfg.labels)[j] = l

(* C9 as stated: the groups appear in the order in which their labels are  *)
(* first encountered in the rows, and among groups of equal sum the topN   *)
(* truncation keeps the one whose label was encountered first.             *)
C9_FirstEncounteredOrder ==
    (PieBuilt /\ charts # <<>>) =>
        LET slices == charts[1].slices
            n == Cfg.largestItems
        IN  /\ n = 0 =>
                  [i \in 1..Len(slices) |-> slices[i].label]
                      = FirstSeenOrder(df, Cfg.labels)
            /\ n > 0 =>
                  \A i \in 1..Len(slices) :
                      \A l \in DatasetLabels \ SliceLabels :
                          ExpectedSum(l) = slices[i].value =>
                              FirstSeenAt(slices[i].label) < FirstSeenAt(l)

(* C9 as amended: the groups appear in ascending order of their labels,    *)
(* whatever the order of the rows; with topN present the kept groups       *)
(* appear in descending order of their sums, equal sums in ascending order *)
(* of label, and among groups of equal sum the truncation keeps the one    *)
(* whose label sorts first.                                                *)
C9_LabelOrder ==
    (PieBuilt /\ charts # <<>>) =>
        LET slices == charts[1].slices
            n == Cfg.largestItems
        IN  /\ n = 0 =>
                  \A i \in 1..Len(slices), j \in 1..Len(slices) :
                      i < j => slices[i].label < slices[j].label
            /\ n > 0 =>
                  /\ \A i \in 1..Len(slices), j \in 1..Len(slices) :
                        i < j =>
                            \/ slices[i].value > slices[j].value
                            \/ /\ slices[i].value = slices[j].value
                               /\ slices[i].label < slices[j].label
                  /\ \A i \in 1..Len(slices) :
                        \A l \in DatasetLabels \ SliceLabels :
                            ExpectedSum(l) = slices[i].value => slices[i].label < l

\* two groups of equal sum, the one kept by topN = 1 encountered second
C9_Witness ==
    /\ PieBuilt
    /\ Len(charts) = 1
    /\ Cfg.largestItems = 1
    /\ Len(charts[1].slices) = 1
    /\ \E l \in DatasetLabels \ SliceLabels :
          /\ ExpectedSum(l) = charts[1].slices[1].value
          /\ FirstSeenAt(l) < FirstSeenAt(charts[1].slices[1].label)

(* C10: a LineBarCombo build in which some series, at any position,        *)
(* references a column absent from the dataset fails with a                *)
(* column-not-found error (KeyError), and nothing is handed to the         *)
(* rendering surface: no chart of the earlier, valid series is plotted.    *)
C10_MissingColumnPlotsNothing ==
    (LineBarBuilt /\ ~SeriesColumnsExist) =>
        /\ outcome = "KeyError"
        /\ charts = <<>>

\* the second series is the one in error; the x axis and the first are valid
C10_Witness ==
    /\ LineBarBuilt
    /\ Len(Cfg.series) = 2
    /\ HasColumn(df, Cfg.xAxis)
    /\ HasColumn(df, Cfg.series[1].column)
    /\ ~HasColumn(df, Cfg.series[2].column)
    /\ outcome = "KeyError"
    /\ charts = <<>>

(* C11: the pie build fails, and renders no chart, whenever the colour     *)
(* theme supplied is not one of the three recognised themes (Blue-Grey,    *)
(* Yellow-Green, Red-Orange), a stored configuration without a theme       *)
(* included.                                                               *)
C11_UnknownThemeFails ==
    (PieBuilt /\ Cfg.colorTheme \notin ColourThemes) =>
        /\ charts = <<>>
        /\ outcome # "Rendered"

(* C12: a render of a stored configuration that fails inside the chart     *)
(* build leaves the session state as it was before the render: the         *)
(* line/bar series list and the horizontal bar series list are unchanged.  *)
C12_FailedRenderKeepsSessionState ==
    [][(/\ pc = "render"
        /\ pc' = "done"
        /\ presented' = "stored_config"
        /\ outcome' # "Rendered")
       => /\ line_bar_series' = line_bar_series
          /\ horizontal_bar_series' = horizontal_bar_series]_vars

\* a preview session that entered the poll loop has ended
PollEnded == acquired_by = "poll" /\ pc = "done"

\* the configuration was found and read
ConfigLoaded == config_found /\ session_data # <<>>

\* a call on the store raised, and main's handlers reported it
StoreRaised == outcome \in {"FirebaseError", "NotFound", "JSONDecodeError"}

(* C13 as stated: every session run terminates; a preview session leaves   *)
(* the poll loop after at most 15 exists checks and ends in ConfigLoaded   *)
(* or in ConfigurationTimeout; the poll sleep is the only point at which   *)
(* the run waits, and a full session never sleeps.                         *)
C13_TerminatesLoadedOrTimeout ==
    /\ <>(pc = "done")
    /\ [](/\ Len(ExistsResults) <= 15
          /\ PollEnded => (ConfigLoaded \/ outcome = "ConfigurationTimeout")
          /\ NSleeps > 0 => acquired_by = "poll"
          /\ ~IsPreviewSession(session_id) => (NSleeps = 0 /\ elapsed = 0))

(* C13 as amended: every session run terminates; a preview session leaves  *)
(* the poll loop after at most 15 exists checks and ends in ConfigLoaded,  *)
(* in ConfigurationTimeout or, when an exists or read call on the store    *)
(* raises, in the error main reports for it; the poll sleep is the only    *)
(* point at which the run waits, and a full session never sleeps.          *)
C13_TerminatesLoadedTimeoutOrError ==
    /\ <>(pc = "done")
    /\ [](/\ Len(ExistsResults) <= 15
          /\ PollEnded =>
                \/ ConfigLoaded /\ ~StoreRaised
                \/ outcome = "ConfigurationTimeout" /\ ~ConfigLoaded
                \/ StoreRaised /\ ~ConfigLoaded
          /\ NSleeps > 0 => acquired_by = "poll"
          /\ ~IsPreviewSession(session_id) => (NSleeps = 0 /\ elapsed = 0))

\* a poll of 15 exists checks, each sleep of one time unit, ended in a timeout
C13_Witness ==
    /\ PollEnded
    /\ Len(ExistsResults) = 15
    /\ NSleeps = 15
    /\ elapsed = 15
    /\ outcome = "ConfigurationTimeout"

====
